---- MODULE Spec2Model ----
\* State-machine model of the autonomous agent loop (AgentLoop, LoopContextImpl)
\* and of the client facade it drives (connect / disconnect / on / off and the
\* inbound frame dispatch of WsConnection), followed by a model of one
\* WsConnection instance used standalone: its channel life cycle (WsSpec) and its
\* listener registry and frame dispatch (DispatchSpec).
\*
\* One TLA+ step is one run-to-completion piece of JavaScript: the code between
\* two awaits.  A handler that is awaited is "in flight" between the step that
\* calls it and the step in which its promise settles.
EXTENDS Integers, Sequences, FiniteSets, TLC

\* ---------------------------------------------------------------- bounds
MaxStarts == 2
MaxInFlight == 2
MaxTicks == 2
MaxErrors == 1
MaxTimestamp == 1
MaxSockets == 3
MaxConnects == 3
MaxFrames == 2
MaxRegistered == 2
MaxListeners == 2

\* ------------------------------------------------------------- constants
Kinds == {"dm", "mention", "notification", "unread", "watch_update"}

mappings == <<"dm", "mention", "notification", "unread", "watch_update">>

ErrorSource == Kinds \cup {"tick", "start", "stop"}

Frames == {"agent:dm", "agent:mentioned", "notification:new/claw",
           "notification:new/watch_update", "notification:unread", "post:new"}

\* Frames that are malformed: not JSON, the JSON value null, a recognized tag
\* without a data field.
Malformed == {"not json", "null", "agent:dm/no data", "notification:new/no data"}

RawFrames == Frames \cup Malformed

CallIds == 1..MaxStarts

Timestamps == 1..MaxTimestamp

NoTimer == 0

NoListener == 0

\* The configurations the loop is constructed with (AgentLoopConfig after the
\* constructor's defaults).
Configs ==
  { [autoConnect |-> TRUE, immediateFirstTick |-> TRUE, onTick |-> TRUE,
     onStart |-> TRUE, onStop |-> TRUE, handlers |-> {"dm"},
     agentId |-> "agent-1"],
    [autoConnect |-> FALSE, immediateFirstTick |-> FALSE, onTick |-> TRUE,
     onStart |-> FALSE, onStop |-> TRUE, handlers |-> {"dm", "mention"},
     agentId |-> "null"],
    [autoConnect |-> TRUE, immediateFirstTick |-> TRUE, onTick |-> FALSE,
     onStart |-> FALSE, onStop |-> FALSE,
     handlers |-> {"notification", "watch_update"}, agentId |-> "agent-1"],
    [autoConnect |-> FALSE, immediateFirstTick |-> TRUE, onTick |-> FALSE,
     onStart |-> FALSE, onStop |-> FALSE, handlers |-> {},
     agentId |-> "agent-1"] }

VARIABLES
  config,          \* AgentLoop.config with the constructor's defaults applied
  started,         \* AgentLoop.started
  tickTimer,       \* AgentLoop.tickTimer: id of the interval, NoTimer for null
  boundListeners,  \* AgentLoop.boundListeners: event -> listener id
  ctx,             \* LoopContextImpl fields
  timers,          \* intervals armed in the runtime (setInterval not cleared)
  pc,              \* position of every start() call
  wsConnection,    \* the client's wsConnection is non-null
  wsState,         \* state of the current instance's channel
  listeners,       \* WsConnection.listeners of the current instance
  inv,             \* handler invocations in flight: <<source, req>> -> count
  errCount,        \* number of calls of the configured error handler
  lastErr,         \* source tag of the latest error handler call
  onStartCalls,    \* number of onStart invocations
  onStopCalls,     \* number of onStop invocations
  lastCall,        \* how the latest start() / stop() call from outside went
  app,             \* observer: the application's listeners and the latest
                   \*   delivery to them
  wsConfig,        \* WsConnection: autoReconnect, maxReconnectDelay
  conn,            \* WsConnection: ws, listeners, reconnectAttempt,
                   \*   reconnectTimer, intentionalClose
  sockets,         \* the WebSocket objects the instance has created
  timeouts,        \* pending setTimeout timers: [id, delay]
  timerCount,      \* number of setTimeout calls so far
  calls,           \* the connect() calls of the instance
  obs,             \* observer: closures, suppressed, callerClosed, uncaught
  listenerCode,    \* what each listener function does when it is called
  received,        \* the frames handed to handleMessage, in order
  trace,           \* observer: the emissions made for those frames
  http             \* HttpClient: its config, the request() call in progress
                   \*   and the fetch calls made for it

loopVars == <<config, started, tickTimer, boundListeners, ctx, timers, pc,
              wsConnection, wsState, listeners, inv, errCount, lastErr,
              onStartCalls, onStopCalls, lastCall, app>>

connVars == <<wsConfig, conn, sockets, timeouts, timerCount, calls, obs,
              listenerCode, received, trace>>

vars == <<config, started, tickTimer, boundListeners, ctx, timers, pc,
          wsConnection, wsState, listeners, inv, errCount, lastErr,
          onStartCalls, onStopCalls, lastCall, app,
          wsConfig, conn, sockets, timeouts, timerCount, calls, obs,
          listenerCode, received, trace, http>>

\* The whole state as one record, so that a handler is a function on it.
World ==
  [started |-> started, tickTimer |-> tickTimer,
   boundListeners |-> boundListeners, ctx |-> ctx, timers |-> timers,
   pc |-> pc, wsConnection |-> wsConnection, wsState |-> wsState,
   listeners |-> listeners, inv |-> inv, errCount |-> errCount,
   lastErr |-> lastErr, onStartCalls |-> onStartCalls,
   onStopCalls |-> onStopCalls, lastCall |-> lastCall, app |-> app]

Apply(W) ==
  /\ started' = W.started
  /\ tickTimer' = W.tickTimer
  /\ boundListeners' = W.boundListeners
  /\ ctx' = W.ctx
  /\ timers' = W.timers
  /\ pc' = W.pc
  /\ wsConnection' = W.wsConnection
  /\ wsState' = W.wsState
  /\ listeners' = W.listeners
  /\ inv' = W.inv
  /\ errCount' = W.errCount
  /\ lastErr' = W.lastErr
  /\ onStartCalls' = W.onStartCalls
  /\ onStopCalls' = W.onStopCalls
  /\ lastCall' = W.lastCall
  /\ app' = W.app
  /\ UNCHANGED config
  /\ UNCHANGED connVars
  /\ UNCHANGED http

\* ------------------------------------------------------ in-flight handlers
InvSources == Kinds \cup {"tick", "stop"}

InvKeys == InvSources \X BOOLEAN

Add(b, k) == [b EXCEPT ![k] = @ + 1]

Rem(b, k) == [b EXCEPT ![k] = @ - 1]

TicksInFlight(b) == b[<<"tick", FALSE>>] + b[<<"tick", TRUE>>]

EventsInFlight(b, k) == b[<<k, FALSE>>] + b[<<k, TRUE>>]

\* tick and event handler invocations in flight
InFlight(b) ==
  TicksInFlight(b) + EventsInFlight(b, "dm") + EventsInFlight(b, "mention")
  + EventsInFlight(b, "notification") + EventsInFlight(b, "unread")
  + EventsInFlight(b, "watch_update")

\* The model's bounds, as a guard on the state an action leads to.
Bounded(W) ==
  /\ InFlight(W.inv) <= MaxInFlight
  /\ W.ctx.tickCount + TicksInFlight(W.inv) <= MaxTicks
  /\ W.errCount <= MaxErrors

Step(W) == Bounded(W) /\ Apply(W)

\* ------------------------------------------------------------ LoopContext
requestStop(W) == [W EXCEPT !.ctx.stopRequested = TRUE]

clearStopRequest_noop(W) == W

clearStopRequest(W) == [W EXCEPT !.ctx.stopRequested = FALSE]

\* ------------------------------------------------------------ the client
getOrCreateWs(W) == [W EXCEPT !.wsConnection = TRUE]

on(W, event, listener) ==
  LET V == getOrCreateWs(W)
  IN [V EXCEPT !.listeners = @ \cup {<<event, listener>>}]

off(W, event, listener) ==
  LET V == getOrCreateWs(W)
  IN [V EXCEPT !.listeners = @ \ {<<event, listener>>}]

\* client.disconnect(): closes the instance's channel and drops the instance,
\* its listener registry included; a connect() still pending on the dropped
\* instance goes on without it.
disconnect(W) ==
  [W EXCEPT !.wsState = "none",
            !.wsConnection = FALSE,
            !.listeners = {},
            !.pc = [c \in CallIds |->
                      IF W.pc[c] = "connect" THEN "connectOrphan" ELSE W.pc[c]]]

\* client.connect() up to its first await.
connect(W, c) ==
  LET V == getOrCreateWs(W)
  IN IF V.wsState = "open"
     THEN [V EXCEPT !.pc[c] = "connectEarly"]
     ELSE [V EXCEPT !.pc[c] = "connect", !.wsState = "connecting"]

handleMessage_loose(frame) ==
  CASE frame \in {"agent:dm", "agent:dm/no data"} -> <<"dm">>
    [] frame = "agent:mentioned" -> <<"mention">>
    [] frame \in {"notification:new/claw", "notification:new/no data"} -> <<"notification">>
    [] frame = "notification:new/watch_update" -> <<"notification", "watch_update">>
    [] frame = "notification:unread" -> <<"unread">>
    [] frame = "post:new" -> <<"notification">>
    [] OTHER -> <<>>

handleMessage_noWatch(frame) ==
  CASE frame \in {"agent:dm", "agent:dm/no data"} -> <<"dm">>
    [] frame = "agent:mentioned" -> <<"mention">>
    [] frame \in {"notification:new/claw", "notification:new/no data"} -> <<"notification">>
    [] frame = "notification:new/watch_update" -> <<"notification">>
    [] frame = "notification:unread" -> <<"unread">>
    [] OTHER -> <<>>

\* WsConnection.handleMessage: the listener sets a frame is emitted on.
handleMessage(frame) ==
  CASE frame \in {"agent:dm", "agent:dm/no data"} -> <<"dm">>
    [] frame = "agent:mentioned" -> <<"mention">>
    [] frame \in {"notification:new/claw", "notification:new/no data"} -> <<"notification">>
    [] frame = "notification:new/watch_update" -> <<"notification", "watch_update">>
    [] frame = "notification:unread" -> <<"unread">>
    [] OTHER -> <<>>

\* WsConnection.handleMessage: the frames on which it throws: destructuring
\* the parsed value null, reading data.notification with data undefined.
handleMessageThrows(frame) == frame \in {"null", "notification:new/no data"}

\* ------------------------------------------------------------- AgentLoop
\* The configured error handler is called; whether it throws is the caller's
\* concern.
errorHandler(W, source) ==
  [W EXCEPT !.errCount = @ + 1, !.lastErr = source]

safeCall_swallow(W, threw, source, ehThrows) == W

\* safeCall after fn() has settled: threw says whether it rejected, ehThrows
\* whether the error handler throws in turn (swallowed).
safeCall(W, threw, source, ehThrows) ==
  IF threw THEN errorHandler(W, source) ELSE W

\* The bound listener of registerListeners up to the await in safeCall.
bound(W, source) == [W EXCEPT !.inv = Add(@, <<source, FALSE>>)]

\* WsConnection.emit: every listener registered for the event is called.
RECURSIVE emitTo(_, _, _)
emitTo(W, event, ls) ==
  IF ls = {} THEN W
  ELSE LET l == CHOOSE x \in ls : TRUE
       IN emitTo(bound(W, event), event, ls \ {l})

emit(W, event) ==
  emitTo(W, event, {l \in W.listeners : l[1] = event})

RECURSIVE emitAll(_, _)
emitAll(W, events) ==
  IF events = <<>> THEN W
  ELSE emitAll(emit(W, Head(events)), Tail(events))

\* executeTick up to the await in safeCall.
executeTick(W) ==
  IF ~W.started \/ ~config.onTick THEN W
  ELSE [W EXCEPT !.inv = Add(@, <<"tick", FALSE>>)]

\* registerListeners: one bound listener per configured handler, in the order
\* of mappings; the listener of start() call c is identified by c.
RECURSIVE registerFrom(_, _, _)
registerFrom(W, c, ms) ==
  IF ms = <<>> THEN W
  ELSE LET event == Head(ms)
       IN IF event \notin config.handlers THEN registerFrom(W, c, Tail(ms))
          ELSE registerFrom(on([W EXCEPT !.boundListeners[event] = c], event, c),
                            c, Tail(ms))

registerListeners(W, c) == registerFrom(W, c, mappings)

RECURSIVE removeFrom(_, _, _)
removeFrom(W, bnd, ms) ==
  IF ms = <<>> THEN W
  ELSE LET event == Head(ms)
       IN IF bnd[event] = NoListener THEN removeFrom(W, bnd, Tail(ms))
          ELSE removeFrom(off(W, event, bnd[event]), bnd, Tail(ms))

removeListeners(W) ==
  [removeFrom(W, W.boundListeners, mappings)
     EXCEPT !.boundListeners = [k \in Kinds |-> NoListener]]

stop_unguarded(W) ==
  LET W1 == [removeListeners(W) EXCEPT !.timers = @ \ {W.tickTimer},
                                       !.tickTimer = NoTimer]
      W2 == IF config.autoConnect THEN disconnect(W1) ELSE W1
      W3 == [W2 EXCEPT !.ctx.running = FALSE, !.started = FALSE]
  IN IF config.onStop
     THEN [W3 EXCEPT !.inv = Add(@, <<"stop", FALSE>>), !.onStopCalls = @ + 1]
     ELSE W3

stop_resetsCount(W) ==
  IF ~W.started THEN W
  ELSE [stop_unguarded(W) EXCEPT !.ctx.tickCount = 0, !.ctx.lastTickAt = 0]

\* stop() up to the await of onStop.
stop(W) ==
  IF ~W.started THEN W
  ELSE
    LET W1 == IF W.tickTimer # NoTimer
              THEN [W EXCEPT !.timers = @ \ {W.tickTimer}, !.tickTimer = NoTimer]
              ELSE W
        W2 == removeListeners(W1)
        W3 == IF config.autoConnect THEN disconnect(W2) ELSE W2
        W4 == [W3 EXCEPT !.ctx.running = FALSE, !.started = FALSE]
        W5 == IF config.onStop
              THEN [W4 EXCEPT !.inv = Add(@, <<"stop", FALSE>>),
                              !.onStopCalls = @ + 1]
              ELSE W4
    IN W5

\* start(): the tick part, after onStart.
startTicks(W, c) ==
  LET V == IF config.onTick
           THEN LET V1 == IF config.immediateFirstTick THEN executeTick(W) ELSE W
                IN [V1 EXCEPT !.timers = @ \cup {c}, !.tickTimer = c]
           ELSE W
  IN [V EXCEPT !.pc[c] = "done"]

\* start(): listener registration and onStart, after the connection attempt.
startHooks(W, c) ==
  LET V == registerListeners(W, c)
  IN IF config.onStart
     THEN [V EXCEPT !.pc[c] = "onStart", !.onStartCalls = @ + 1]
     ELSE startTicks(V, c)

\* start(): after getAgentId() has resolved.
startConnect(W, c, id) ==
  LET V == [W EXCEPT !.ctx.agentId = id]
  IN IF config.autoConnect THEN connect(V, c) ELSE startHooks(V, c)

\* start(): after client.connect() has settled.
startConnected(W, c, ok, ehThrows) ==
  LET V == IF W.pc[c] = "connect"
           THEN [W EXCEPT !.wsState = IF ok \/ @ = "open" THEN "open" ELSE "none"]
           ELSE W
  IN IF ok THEN startHooks(V, c)
     ELSE LET E == errorHandler(V, "start")
          IN IF ehThrows THEN [E EXCEPT !.pc[c] = "rejected"]
             ELSE startHooks(E, c)

start_unguarded(W, c) ==
  clearStopRequest([W EXCEPT !.started = TRUE, !.ctx.running = TRUE,
                             !.pc[c] = "agentId", !.lastCall = "ok"])

\* start() up to the await of getAgentId().
start(W, c) ==
  IF W.started
  THEN [W EXCEPT !.lastCall = "already running"]
  ELSE LET V == [W EXCEPT !.started = TRUE, !.ctx.running = TRUE,
                          !.pc[c] = "agentId",
                          !.lastCall = "ok"]
       IN clearStopRequest(V)

\* executeTick / the bound listener after safeCall has resolved.
stopIfRequested(W) == IF W.ctx.stopRequested THEN stop(W) ELSE W

\* ============================================================ WsConnection
\* One WsConnection instance used standalone.  A step is again one
\* run-to-completion piece: a public method up to its first await, the rest of
\* connect() after its awaits, or one event of a WebSocket object.
BaseDelay == 1000

DefaultMaxReconnectDelay == 30000

NoSocket == 0

NoTimeout == 0

NoFrame == 0

Tombstone == 0

Events == Kinds \cup {"connected", "disconnected", "error"}

ConnectIds == 1..MaxConnects

ListenerIds == 1..MaxListeners

NewCall == [origin |-> "none", at |-> "new", sock |-> NoSocket]

WsConfigs ==
  { [autoReconnect |-> TRUE, maxReconnectDelay |-> DefaultMaxReconnectDelay],
    [autoReconnect |-> TRUE, maxReconnectDelay |-> 3000],
    [autoReconnect |-> FALSE, maxReconnectDelay |-> DefaultMaxReconnectDelay] }

\* What the registered listener functions do when called: nothing, or an
\* off() / on() of a listener of the event being emitted.
ListenerCodes ==
  { [l \in ListenerIds |-> <<"none", NoListener>>],
    [l \in ListenerIds |-> IF l = 1 THEN <<"off", 2>> ELSE <<"none", NoListener>>],
    [l \in ListenerIds |-> IF l = 1 THEN <<"on", 2>> ELSE <<"none", NoListener>>],
    [l \in ListenerIds |-> IF l = 2 THEN <<"off", 1>> ELSE <<"none", NoListener>>] }

\* The events listeners are registered for in the dispatch model.
DispatchEvents == {"notification", "watch_update"}

WsWorld ==
  [conn |-> conn, sockets |-> sockets, timeouts |-> timeouts,
   timerCount |-> timerCount, calls |-> calls, obs |-> obs,
   received |-> received, trace |-> trace]

WsApply(S) ==
  /\ conn' = S.conn
  /\ sockets' = S.sockets
  /\ timeouts' = S.timeouts
  /\ timerCount' = S.timerCount
  /\ calls' = S.calls
  /\ obs' = S.obs
  /\ received' = S.received
  /\ trace' = S.trace
  /\ UNCHANGED <<wsConfig, listenerCode>>
  /\ UNCHANGED loopVars
  /\ UNCHANGED http

Min(a, b) == IF a <= b THEN a ELSE b

Live(ss) == {s \in DOMAIN ss : ss[s].state \in {"connecting", "open"}}

InProgress(cs) == {i \in DOMAIN cs : cs[i].at \in {"keys", "socket"}}

Registered(S, event) ==
  {S.conn.listeners[event][i] : i \in DOMAIN S.conn.listeners[event]} \ {Tombstone}

\* this.ws && this.ws.readyState === WebSocket.OPEN
readyStateOpen(S) ==
  S.conn.ws # NoSocket /\ S.sockets[S.conn.ws].state = "open"

\* on(): Set.add appends a listener that is not in the set.
ws_on(S, event, l) ==
  IF l \in Registered(S, event) THEN S
  ELSE [S EXCEPT !.conn.listeners[event] = Append(@, l)]

\* off(): Set.delete empties the listener's entry; an iteration in progress
\* skips the entry.
ws_off(S, event, l) ==
  [S EXCEPT !.conn.listeners[event] =
              [i \in DOMAIN @ |-> IF @[i] = l THEN Tombstone ELSE @[i]]]

\* The emptied entries are gone once no iteration is in progress.
compact(S) ==
  [S EXCEPT !.conn.listeners =
              [e \in Events |-> SelectSeq(@[e], LAMBDA x : x # Tombstone)]]

\* handler(data): the listener function runs.
callListener(S, event, l) ==
  CASE listenerCode[l][1] = "off" -> ws_off(S, event, listenerCode[l][2])
    [] listenerCode[l][1] = "on" -> ws_on(S, event, listenerCode[l][2])
    [] OTHER -> S

\* for (const handler of handlers): the iteration of the live Set, from entry i.
RECURSIVE emitFrom(_, _, _, _)
emitFrom(S, event, i, called) ==
  IF i > Len(S.conn.listeners[event]) THEN [S |-> S, called |-> called]
  ELSE LET l == S.conn.listeners[event][i]
       IN IF l = Tombstone THEN emitFrom(S, event, i + 1, called)
          ELSE emitFrom(callListener(S, event, l), event, i + 1, Append(called, l))

ws_emit_reversed(S, event, data) ==
  LET R == emitFrom(S, event, 1, <<>>)
  IN IF data = NoFrame THEN compact(R.S)
     ELSE [compact(R.S) EXCEPT
             !.trace = <<[frame |-> data, event |-> event,
                          before |-> S.conn.listeners[event],
                          called |-> R.called]>> \o @]

\* emit(event, data); the emission of a frame is recorded in trace.
ws_emit(S, event, data) ==
  LET R == emitFrom(S, event, 1, <<>>)
  IN IF data = NoFrame THEN compact(R.S)
     ELSE [compact(R.S) EXCEPT
             !.trace = Append(@, [frame |-> data, event |-> event,
                                  before |-> S.conn.listeners[event],
                                  called |-> R.called])]

RECURSIVE emitEach(_, _, _)
emitEach(S, events, data) ==
  IF events = <<>> THEN S
  ELSE emitEach(ws_emit(S, Head(events), data), Tail(events), data)

\* handleMessage(raw): the frame is the n-th the instance receives; n stands
\* for its payload.  An exception that escapes is recorded in obs.uncaught.
ws_handleMessage(S, frame) ==
  LET T == [S EXCEPT !.received = Append(@, frame)]
      U == emitEach(T, handleMessage(frame), Len(T.received))
  IN IF handleMessageThrows(frame) THEN [U EXCEPT !.obs.uncaught = TRUE] ELSE U

scheduleReconnect(S) ==
  LET delay == Min(BaseDelay * 2 ^ S.conn.reconnectAttempt,
                   wsConfig.maxReconnectDelay)
  IN [S EXCEPT !.conn.reconnectAttempt = @ + 1,
               !.conn.reconnectTimer = S.timerCount + 1,
               !.timerCount = @ + 1,
               !.timeouts = @ \cup {[id |-> S.timerCount + 1, delay |-> delay]}]

\* How connect() call i ends: a rejection of the call the reconnect timer made
\* is caught in the timer's callback.
settle(S, i, how) ==
  [S EXCEPT !.calls[i].at =
              IF how = "rejected" /\ S.calls[i].origin = "timer"
              THEN "swallowed" ELSE how]

RECURSIVE settleAll(_, _, _)
settleAll(S, is, how) ==
  IF is = {} THEN S
  ELSE LET i == CHOOSE x \in is : TRUE
       IN settleAll(settle(S, i, how), is \ {i}, how)

Awaiting(S, s) ==
  {i \in ConnectIds : S.calls[i].at = "socket" /\ S.calls[i].sock = s}

\* connect() up to its first await.
ws_connect(S, i, origin) ==
  IF readyStateOpen(S)
  THEN [S EXCEPT !.calls[i] = [origin |-> origin, at |-> "resolved", sock |-> NoSocket]]
  ELSE [S EXCEPT !.conn.intentionalClose = FALSE,
                 !.calls[i] = [origin |-> origin, at |-> "keys", sock |-> NoSocket]]

\* connect() after the key store has answered.
connectWithKeys(S, i, haveKeys) ==
  IF ~haveKeys THEN settle(S, i, "rejected")
  ELSE LET s == Len(S.sockets) + 1
       IN [S EXCEPT !.sockets = Append(@, [state |-> "connecting", byCaller |-> FALSE]),
                    !.conn.ws = s,
                    !.calls[i].at = "socket",
                    !.calls[i].sock = s]

\* The 'open' listener of socket s.
onOpen(S, s) ==
  LET S1 == [S EXCEPT !.conn.reconnectAttempt = 0]
      S2 == ws_emit(S1, "connected", NoFrame)
  IN settleAll(S2, Awaiting(S2, s), "resolved")

\* The 'error' listener of socket s: the promise of the connect() call that
\* created s is rejected unless the instance's current socket is open.
onError(S, s) ==
  LET S1 == ws_emit(S, "error", NoFrame)
  IN IF ~readyStateOpen(S1) THEN settleAll(S1, Awaiting(S1, s), "rejected")
     ELSE settleAll(S1, Awaiting(S1, s), "hung")

\* The 'close' listener of socket s.
onClose(S, s) ==
  LET S1 == ws_emit(S, "disconnected", NoFrame)
  IN IF ~S1.conn.intentionalClose /\ wsConfig.autoReconnect
     THEN scheduleReconnect(S1) ELSE S1

\* disconnect()
ws_disconnect(S) ==
  LET S1 == [S EXCEPT !.conn.intentionalClose = TRUE]
      S2 == IF S1.conn.reconnectTimer # NoTimeout
            THEN [S1 EXCEPT !.timeouts = {t \in @ : t.id # S1.conn.reconnectTimer},
                            !.conn.reconnectTimer = NoTimeout]
            ELSE S1
  IN IF S2.conn.ws = NoSocket THEN S2
     ELSE [S2 EXCEPT !.sockets[S2.conn.ws] =
                        IF @.state \in {"connecting", "open"}
                        THEN [state |-> "closing", byCaller |-> TRUE] ELSE @,
                     !.conn.ws = NoSocket]


\* ---------------------------------------------------------------- actions
LoopInit ==
  /\ config \in Configs
  /\ started = FALSE
  /\ tickTimer = NoTimer
  /\ boundListeners = [k \in Kinds |-> NoListener]
  /\ ctx = [agentId |-> "null", tickCount |-> 0, running |-> FALSE,
            lastTickAt |-> 0, stopRequested |-> FALSE]
  /\ timers = {}
  /\ pc = [c \in CallIds |-> "new"]
  /\ wsConnection = FALSE
  /\ wsState = "none"
  /\ listeners = {}
  /\ inv = [k \in InvKeys |-> 0]
  /\ errCount = 0
  /\ lastErr = "none"
  /\ onStartCalls = 0
  /\ onStopCalls = 0
  /\ lastCall = "ok"
  /\ app = [registered |-> {}, expected |-> {}, delivered |-> {}]

\* ------------------------------------------------------------- HttpClient
\* The two versions of HttpClient in the sources: http.ts builds the headers
\* once in request(), part_017 builds them in buildInit for every attempt.
Impls == {"http.ts", "part_017"}

MaxRetries == 2

DefaultWaitMs == 1000

MsPerSecond == 1000

\* JavaScript values: undefined, a string, an object (written as its JSON
\* text).  The texts hold no character that JSON.stringify escapes.
Undefined == [type |-> "undefined", text |-> ""]

Str(t) == [type |-> "string", text |-> t]

Obj(t) == [type |-> "object", text |-> t]

Bodies == {Undefined, Obj("{}"), Obj("[1]"), Str("hi")}

Methods == {"GET", "POST"}

NoExtraHeaders == [k \in {} |-> ""]

ExtraHeaders == {NoExtraHeaders, "X-PAYMENT" :> "proof"}

BaseHeaders == "Content-Type" :> "application/json" @@ "Accept" :> "application/json"

AgentId == "agent-1"

PrivateKey == "key-1"

ManifestHash == "0000000000000000000000000000000000000000000000000000000000000000"

Statuses == {200, 429, 500}

RetryAfters == {"absent", "0", "1"}

\* Object.assign(target, source)
assign(target, source) == source @@ target

\* JSON.stringify: a string is quoted, an object gives its JSON text,
\* undefined gives undefined.
JSON_stringify(v) ==
  CASE v.type = "string" -> Str("\"" \o v.text \o "\"")
    [] v.type = "object" -> Str(v.text)
    [] OTHER -> Undefined

\* parseInt(retryAfter, 10) of the Retry-After values of the model
parseInt(t) == IF t = "1" THEN 1 ELSE 0

buildSignatureMessage_reserialize(body, nonce, timestamp) ==
  JSON_stringify(body).text \o nonce \o timestamp

\* signing.ts buildSignatureMessage
buildSignatureMessage(body, nonce, timestamp) ==
  LET bodyString == IF body.type = "string" THEN body.text
                    ELSE JSON_stringify(body).text
  IN bodyString \o nonce \o timestamp

\* signing.ts signMessage: the signature of the message under the key
signMessage(message, privateKeyDer) ==
  "sig(" \o privateKeyDer \o "," \o message \o ")"

\* signing.ts generateNonce: the k-th UUID the process draws
generateNonce(k) == "uuid-" \o ToString(k)

\* signing.ts buildClawHeaders, at time now (ms), drawing the k-th UUID
buildClawHeaders(bodyString, agentId, privateKeyDer, manifestHash, k, now) ==
  LET nonce == generateNonce(k)
      timestamp == ToString(now \div MsPerSecond)
      message == buildSignatureMessage(bodyString, nonce, timestamp)
      signature == signMessage(message, privateKeyDer)
  IN "X-Claw-Agent-ID" :> agentId @@ "X-Claw-Signature" :> signature
     @@ "X-Claw-Nonce" :> nonce @@ "X-Claw-Timestamp" :> timestamp
     @@ "X-Claw-Manifest-Hash" :> manifestHash

HttpConfigs ==
  [impl : Impls, retryOnRateLimit : BOOLEAN, maxRetries : 0..MaxRetries]

NoOpts == [method |-> "GET", body |-> Undefined, auth |-> FALSE,
           headers |-> NoExtraHeaders]

NoInit == [method |-> "none", headers |-> BaseHeaders, body |-> Undefined]

\* new HttpClient(cfg), no request() called yet
HttpClient(cfg) ==
  [impl |-> cfg.impl, retryOnRateLimit |-> cfg.retryOnRateLimit,
   maxRetries |-> cfg.maxRetries,
   at |-> "idle", opts |-> NoOpts, bodyString |-> Undefined,
   init |-> NoInit, attempt |-> 0, fetched |-> <<>>, status |-> 0,
   waitMs |-> 0, outcome |-> "none", nonces |-> 0, now |-> 0]

\* fetch(url, init) is called.
fetch(H, init) ==
  [H EXCEPT !.init = init, !.fetched = Append(@, init), !.at = "fetch"]

\* The RequestInit: headers with the X-Claw-* headers claw (none for a
\* request without auth); part_017 merges opts.headers.
buildInit(H, claw) ==
  LET headers == assign(BaseHeaders, claw)
  IN [method |-> H.opts.method,
      headers |-> IF H.impl = "part_017" THEN assign(headers, H.opts.headers)
                  ELSE headers,
      body |-> H.bodyString]

\* Building the headers up to the await on the key store.
beginInit(H) ==
  IF H.opts.auth THEN [H EXCEPT !.at = "keys"]
  ELSE fetch(H, buildInit(H, NoExtraHeaders))

\* The key store has answered: SDK_NO_KEYS, or the signed headers and fetch.
keysAnswered(H, haveKeys) ==
  IF ~haveKeys THEN [H EXCEPT !.at = "done", !.outcome = "SDK_NO_KEYS"]
  ELSE LET signBody == IF H.bodyString = Undefined THEN Str("{}") ELSE H.bodyString
           G == [H EXCEPT !.nonces = @ + 1]
       IN fetch(G, buildInit(G, buildClawHeaders(signBody, AgentId, PrivateKey,
                                                 ManifestHash, G.nonces, G.now)))

\* request(opts) up to its first await
request(H, opts) ==
  LET bodyString == IF opts.method # "GET" /\ opts.body # Undefined
                    THEN JSON_stringify(opts.body) ELSE Undefined
  IN beginInit([H EXCEPT !.opts = opts, !.bodyString = bodyString,
                         !.attempt = 0])

\* executeWithRetry after fetch has answered with the status, a body that is
\* JSON or not, and the Retry-After header.
executeWithRetry(H, status, json, retryAfter) ==
  IF status = 429 /\ H.retryOnRateLimit /\ H.attempt < H.maxRetries
  THEN [H EXCEPT !.status = status, !.at = "wait",
                 !.waitMs = IF retryAfter # "absent"
                            THEN parseInt(retryAfter) * MsPerSecond
                            ELSE DefaultWaitMs]
  ELSE [H EXCEPT !.status = status, !.at = "done",
                 !.outcome = IF ~json THEN "SyntaxError"
                             ELSE IF status \notin 200..299 THEN "ClawApiError"
                             ELSE "resolved"]

\* The wait is over: executeWithRetry(url, init | buildInit, attempt + 1).
retry(H) ==
  LET G == [H EXCEPT !.attempt = @ + 1, !.now = @ + H.waitMs]
  IN IF G.impl = "http.ts" THEN fetch(G, G.init) ELSE beginInit(G)

\* The WsConnection instance after its constructor, no listener registered.
ConnInit ==
  /\ conn = [ws |-> NoSocket,
             listeners |-> [e \in Events |-> <<>>],
             reconnectAttempt |-> 0,
             reconnectTimer |-> NoTimeout,
             intentionalClose |-> FALSE]
  /\ sockets = <<>>
  /\ timeouts = {}
  /\ timerCount = 0
  /\ calls = [i \in ConnectIds |-> NewCall]
  /\ obs = [closures |-> 0, suppressed |-> FALSE, callerClosed |-> FALSE,
            uncaught |-> FALSE]
  /\ received = <<>>
  /\ trace = <<>>

\* The client's HttpClient with the defaults of createClawClient.
HttpIdle ==
  http = HttpClient([impl |-> "part_017", retryOnRateLimit |-> TRUE,
                     maxRetries |-> 1])

Init ==
  /\ LoopInit
  /\ HttpIdle
  /\ wsConfig = [autoReconnect |-> TRUE, maxReconnectDelay |-> DefaultMaxReconnectDelay]
  /\ listenerCode = [l \in ListenerIds |-> <<"none", NoListener>>]
  /\ ConnInit

NextCall == CHOOSE c \in CallIds :
              /\ pc[c] = "new"
              /\ \A d \in CallIds : d < c => pc[d] # "new"

\* loop.start() is called.
Start ==
  /\ started \/ \E c \in CallIds : pc[c] = "new"
  /\ Step(start(World, IF \E c \in CallIds : pc[c] = "new" THEN NextCall ELSE 1))

\* getAgentId() resolves.
AgentIdResolved ==
  \E c \in CallIds :
    /\ pc[c] = "agentId"
    /\ Step(startConnect(World, c, config.agentId))

\* client.connect() settles.
ConnectSettled ==
  \E c \in CallIds, ok \in BOOLEAN, ehThrows \in BOOLEAN :
    /\ pc[c] \in {"connect", "connectOrphan", "connectEarly"}
    /\ pc[c] = "connectEarly" => ok
    /\ ok => ~ehThrows
    /\ Step(startConnected(World, c, ok, ehThrows))

\* onStart settles.
OnStartSettled ==
  \E c \in CallIds, threw \in BOOLEAN, ehThrows \in BOOLEAN :
    /\ pc[c] = "onStart"
    /\ ~threw => ~ehThrows
    /\ Step(startTicks(safeCall(World, threw, "start", ehThrows), c))

\* loop.stop() is called from outside.
Stop ==
  \E result \in {"ok", "no-op"} :
    /\ result = IF started THEN "ok" ELSE "no-op"
    /\ Step([stop(World) EXCEPT !.lastCall = result])

\* An interval fires.
TimerFires ==
  \E t \in timers : Step(executeTick(World))

\* The tick handler settles.
TickSettled ==
  \E req \in BOOLEAN, threw \in BOOLEAN, ehThrows \in BOOLEAN, now \in Timestamps :
    /\ inv[<<"tick", req>>] > 0
    /\ ~threw => ~ehThrows
    /\ LET W0 == [World EXCEPT !.inv = Rem(@, <<"tick", req>>)]
           W1 == IF threw THEN W0
                 ELSE [W0 EXCEPT !.ctx.tickCount = @ + 1, !.ctx.lastTickAt = now]
       IN Step(stopIfRequested(safeCall(W1, threw, "tick", ehThrows)))

\* An event handler settles.
EventSettled ==
  \E k \in Kinds, req \in BOOLEAN, threw \in BOOLEAN, ehThrows \in BOOLEAN :
    /\ inv[<<k, req>>] > 0
    /\ ~threw => ~ehThrows
    /\ LET W0 == [World EXCEPT !.inv = Rem(@, <<k, req>>)]
       IN Step(stopIfRequested(safeCall(W0, threw, k, ehThrows)))

\* onStop settles.
OnStopSettled ==
  \E threw \in BOOLEAN, ehThrows \in BOOLEAN :
    /\ inv[<<"stop", FALSE>>] > 0
    /\ ~threw => ~ehThrows
    /\ LET W0 == [World EXCEPT !.inv = Rem(@, <<"stop", FALSE>>)]
       IN Step(safeCall(W0, threw, "stop", ehThrows))

\* A tick or event handler in flight calls ctx.requestStop(); req records that
\* it did so while the loop was running.
RequestStop ==
  \E s \in Kinds \cup {"tick"}, req \in BOOLEAN :
    /\ inv[<<s, req>>] > 0
    /\ LET W0 == [World EXCEPT
                    !.inv = Add(Rem(@, <<s, req>>), <<s, req \/ started>>)]
       IN Step(requestStop(W0))

\* The application (or the reconnect timer) opens the channel of the client.
ClientConnect ==
  /\ wsState # "open"
  /\ Step([getOrCreateWs(World) EXCEPT !.wsState = "open"])

\* A frame arrives on the open channel.
Receive ==
  \E frame \in Frames :
    /\ wsConnection /\ wsState = "open"
    /\ Step(emitAll(World, handleMessage(frame)))

Next ==
  \/ Start
  \/ AgentIdResolved
  \/ ConnectSettled
  \/ OnStartSettled
  \/ Stop
  \/ TimerFires
  \/ TickSettled
  \/ EventSettled
  \/ OnStopSettled
  \/ RequestStop
  \/ ClientConnect
  \/ Receive

Spec == Init /\ [][Next]_vars

TypeOK ==
  /\ config \in Configs
  /\ started \in BOOLEAN
  /\ tickTimer \in CallIds \cup {NoTimer}
  /\ timers \subseteq CallIds
  /\ wsState \in {"none", "connecting", "open"}
  /\ listeners \subseteq Kinds \X CallIds

\* ------------------------------------------------------ connection actions
WsInit ==
  /\ LoopInit
  /\ HttpIdle
  /\ config.handlers = {}
  /\ wsConfig \in WsConfigs
  /\ listenerCode = [l \in ListenerIds |-> <<"none", NoListener>>]
  /\ ConnInit

NextConnect == CHOOSE i \in ConnectIds :
                 /\ calls[i].at = "new"
                 /\ \A j \in ConnectIds : j < i => calls[j].at # "new"

\* The caller calls connect().
WsConnect ==
  /\ \E i \in ConnectIds : calls[i].at = "new"
  /\ WsApply([ws_connect(WsWorld, NextConnect, "caller") EXCEPT
                !.obs.suppressed = FALSE])

\* The key store answers a connect() call.
WsKeysResolved ==
  \E i \in ConnectIds, haveKeys \in BOOLEAN :
    /\ calls[i].at = "keys"
    /\ haveKeys => Len(sockets) < MaxSockets
    /\ WsApply(connectWithKeys(WsWorld, i, haveKeys))

\* A connecting socket opens.
SocketOpens ==
  \E s \in DOMAIN sockets :
    /\ sockets[s].state = "connecting"
    /\ LET S0 == [WsWorld EXCEPT !.sockets[s].state = "open",
                                 !.obs.closures = 0]
       IN WsApply(onOpen(S0, s))

\* A socket closes: the connection attempt fails, the network or the server
\* drops the channel, or the close the caller asked for completes.  A socket
\* that never opened gets 'error', then 'close'.
SocketCloses ==
  \E s \in DOMAIN sockets :
    /\ sockets[s].state \in {"connecting", "open", "closing"}
    /\ LET S0 == [WsWorld EXCEPT
                    !.sockets[s].state = "closed",
                    !.obs.closures = IF sockets[s].byCaller THEN @ ELSE @ + 1]
           S1 == IF Awaiting(S0, s) # {} THEN onError(S0, s) ELSE S0
       IN WsApply(onClose(S1, s))

\* A pending reconnect timer fires: its callback calls connect().
ReconnectTimerFires ==
  \E t \in timeouts :
    /\ \E i \in ConnectIds : calls[i].at = "new"
    /\ WsApply(ws_connect([WsWorld EXCEPT !.timeouts = @ \ {t}],
                          NextConnect, "timer"))

\* The caller calls disconnect().
WsDisconnect ==
  /\ \E i \in ConnectIds : calls[i].at # "new"
  /\ WsApply([ws_disconnect(WsWorld) EXCEPT !.obs.suppressed = TRUE,
                                            !.obs.callerClosed = TRUE])

WsNext ==
  \/ WsConnect
  \/ WsKeysResolved
  \/ SocketOpens
  \/ SocketCloses
  \/ ReconnectTimerFires
  \/ WsDisconnect

WsSpec == WsInit /\ [][WsNext]_vars

\* -------------------------------------------------------- dispatch actions
DispatchInit ==
  /\ LoopInit
  /\ HttpIdle
  /\ config.handlers = {}
  /\ wsConfig = [autoReconnect |-> TRUE, maxReconnectDelay |-> DefaultMaxReconnectDelay]
  /\ listenerCode \in ListenerCodes
  /\ ConnInit

RegisteredCount ==
  Cardinality({<<e, l>> \in DispatchEvents \X ListenerIds :
                 l \in Registered(WsWorld, e)})

\* The caller registers a listener.
On ==
  \E event \in DispatchEvents, l \in ListenerIds :
    /\ RegisteredCount < MaxRegistered
    /\ l \notin Registered(WsWorld, event)
    /\ WsApply(ws_on(WsWorld, event, l))

\* The caller removes a listener.
Off ==
  \E event \in DispatchEvents, l \in ListenerIds :
    /\ l \in Registered(WsWorld, event)
    /\ WsApply(compact(ws_off(WsWorld, event, l)))

\* A frame arrives: the 'message' listener calls handleMessage.
Message ==
  \E frame \in RawFrames :
    /\ Len(received) < MaxFrames
    /\ WsApply(ws_handleMessage(WsWorld, frame))

DispatchNext ==
  \/ On
  \/ Off
  \/ Message

DispatchSpec == DispatchInit /\ [][DispatchNext]_vars

\* ---------------------------------------------------------- client actions
\* The client facade alone: no loop, the application registers listeners.
ClientInit ==
  /\ LoopInit
  /\ HttpIdle
  /\ config.handlers = {}
  /\ wsConfig = [autoReconnect |-> TRUE, maxReconnectDelay |-> DefaultMaxReconnectDelay]
  /\ listenerCode = [l \in ListenerIds |-> <<"none", NoListener>>]
  /\ ConnInit

\* client.on(event, listener)
ClientOn ==
  \E event \in DispatchEvents, l \in ListenerIds :
    Step([on(World, event, l) EXCEPT !.app.registered = @ \cup {<<event, l>>}])

\* client.off(event, listener)
ClientOff ==
  \E event \in DispatchEvents, l \in ListenerIds :
    /\ <<event, l>> \in app.registered
    /\ Step([off(World, event, l) EXCEPT !.app.registered = @ \ {<<event, l>>}])

\* client.disconnect()
ClientDisconnect ==
  /\ wsConnection
  /\ Step(disconnect(World))

\* A frame arrives on the open channel: emit calls the listeners of the
\* current instance.
ClientReceive ==
  \E frame \in Frames :
    /\ wsConnection /\ wsState = "open"
    /\ LET emitted == {handleMessage(frame)[i] : i \in DOMAIN handleMessage(frame)}
       IN Step([World EXCEPT
                  !.app.expected = {l \in app.registered : l[1] \in emitted},
                  !.app.delivered = {l \in listeners : l[1] \in emitted}])

ClientNext ==
  \/ ClientOn
  \/ ClientOff
  \/ ClientConnect
  \/ ClientDisconnect
  \/ ClientReceive

ClientSpec == ClientInit /\ [][ClientNext]_vars

\* ------------------------------------------------------------ HTTP actions
HttpInit ==
  /\ LoopInit
  /\ config.handlers = {}
  /\ wsConfig = [autoReconnect |-> TRUE, maxReconnectDelay |-> DefaultMaxReconnectDelay]
  /\ listenerCode = [l \in ListenerIds |-> <<"none", NoListener>>]
  /\ ConnInit
  /\ http \in {HttpClient(cfg) : cfg \in HttpConfigs}

HttpApply(H) ==
  /\ http' = H
  /\ UNCHANGED loopVars
  /\ UNCHANGED connVars

\* An endpoint method calls request(opts).
Request ==
  \E method \in Methods, body \in Bodies, auth \in BOOLEAN, headers \in ExtraHeaders :
    /\ http.at = "idle"
    /\ HttpApply(request(http, [method |-> method, body |-> body,
                                auth |-> auth, headers |-> headers]))

\* The key store answers getPrivateKey() and getAgentId().
KeysAnswered ==
  \E haveKeys \in BOOLEAN :
    /\ http.at = "keys"
    /\ HttpApply(keysAnswered(http, haveKeys))

\* The server answers the fetch.
FetchResponds ==
  \E status \in Statuses, json \in BOOLEAN, retryAfter \in RetryAfters :
    /\ http.at = "fetch"
    /\ status # 429 => retryAfter = "absent"
    /\ HttpApply(executeWithRetry(http, status, json, retryAfter))

\* fetch rejects: no connection, or the request timed out.
FetchRejects ==
  /\ http.at = "fetch"
  /\ HttpApply([http EXCEPT !.at = "done", !.outcome = "fetch rejected"])

\* The timer of the wait before a retry fires.
RetryTimerFires ==
  /\ http.at = "wait"
  /\ HttpApply(retry(http))

HttpNext ==
  \/ Request
  \/ KeysAnswered
  \/ FetchResponds
  \/ FetchRejects
  \/ RetryTimerFires

HttpSpec == HttpInit /\ [][HttpNext]_vars

\* ----------------------------------------------------------------- claims
Pending == {"agentId", "connect", "connectEarly", "connectOrphan", "onStart"}

Accepted == Cardinality({c \in CallIds : pc[c] # "new"})

TickSettles == TicksInFlight(inv') < TicksInFlight(inv)

TickBegins == TicksInFlight(inv') > TicksInFlight(inv)

EventSettles(k) == EventsInFlight(inv', k) < EventsInFlight(inv, k)

\* Everything of the loop and the client except the record of the call itself.
LoopUnchanged ==
  UNCHANGED <<started, tickTimer, boundListeners, ctx, timers, pc, wsConnection,
              wsState, listeners, inv, errCount, lastErr, onStartCalls,
              onStopCalls>>

StillDispatching ==
  /\ started' = started
  /\ ctx'.running = ctx.running
  /\ timers \subseteq timers'
  /\ listeners \subseteq listeners'

\* C1: a callback that throws makes the loop call the error handler exactly
\* once, with the source tag of that callback (a tick that settles without
\* advancing tickCount is a tick that threw), and the failure by itself (no
\* cooperative stop being requested) leaves the loop running with its intervals
\* armed and its listeners registered, so that the next interval firing still
\* begins a tick handler invocation.
C1_FailureIsolation ==
  /\ [][ /\ TickSettles /\ ctx'.tickCount = ctx.tickCount
           => errCount' = errCount + 1 /\ lastErr' = "tick"
         /\ errCount' # errCount
           => /\ errCount' = errCount + 1
              /\ \A k \in Kinds : EventSettles(k) => lastErr' = k
              /\ TickSettles => lastErr' = "tick"
              /\ onStartCalls' = onStartCalls /\ (\E c \in CallIds : pc[c] = "onStart" /\ pc'[c] = "done")
                   => lastErr' = "start"
              /\ inv'[<<"stop", FALSE>>] < inv[<<"stop", FALSE>>] => lastErr' = "stop"
              /\ ~ctx.stopRequested => StillDispatching ]_vars
  /\ [](started /\ config.onTick
          => TicksInFlight(executeTick(World).inv) = TicksInFlight(inv) + 1)

C1_Witness ==
  /\ errCount > 0 /\ lastErr = "tick"
  /\ started /\ tickTimer \in timers
  /\ TicksInFlight(inv) > 0

\* C2: an error thrown by the error handler never propagates out of start():
\* no accepted start() call ends rejected.
C2_ErrorHandlerThrowDiscarded == \A c \in CallIds : pc[c] # "rejected"

Stopped ==
  /\ ~started /\ ~ctx.running
  /\ tickTimer = NoTimer /\ timers = {}
  /\ listeners = {}

\* C3: when a tick or event handler invocation that called requestStop() while
\* the loop was running settles (the request still standing), the loop is
\* stopped: not running, no interval armed, no listener registered.
C3_CooperativeStop ==
  [][ /\ ctx.stopRequested
      /\ \E s \in Kinds \cup {"tick"} : inv'[<<s, TRUE>>] < inv[<<s, TRUE>>]
      => Stopped' ]_vars

\* C4: start() on a running loop rejects with 'already running' and changes
\* nothing; a start() call is accepted only when the loop is not running.
C4_StartWhileRunning ==
  /\ [][ /\ (\E c \in CallIds : pc[c] = "new" /\ pc'[c] # "new") => ~started
         /\ lastCall' = "already running" /\ lastCall # lastCall'
              => started /\ LoopUnchanged ]_vars
  /\ [](started => \A c \in CallIds :
                     start(World, c) = [World EXCEPT !.lastCall = "already running"])

C4_Witness == started /\ ctx.running /\ lastCall = "already running"

\* C5: stop() on an idle loop is a no-op: nothing is disconnected, no listener
\* is removed, onStop is not invoked and running stays false.
C5_StopIdempotent ==
  /\ [][ lastCall' = "no-op" /\ lastCall # lastCall'
           => ~started /\ ~started' /\ LoopUnchanged ]_vars
  /\ [](~started => stop(World) = World)

C5_Witness ==
  /\ ~started /\ ~ctx.running /\ lastCall = "no-op"
  /\ \E c \in CallIds : pc[c] = "done"

\* C6: in each start/stop cycle onStart is invoked exactly once and onStop is
\* invoked exactly once: the hooks never outnumber the accepted start() calls,
\* and once the loop is idle with no start() call pending each accepted call
\* has had its onStart and its onStop.
C6_ExactlyOnceLifecycle ==
  /\ config.onStart =>
       /\ onStartCalls <= Accepted
       /\ (~started /\ \A c \in CallIds : pc[c] \notin Pending) => onStartCalls = Accepted
  /\ config.onStop =>
       onStopCalls = Accepted - (IF started THEN 1 ELSE 0)

\* C7: a stop() that gets past its guard cancels the interval, removes every
\* listener the loop registered, closes the connection iff auto-connect is on,
\* sets running to false and then calls onStop: when onStop starts, running is
\* false and no loop listener is registered.
C7_StopSequence ==
  [][ started /\ ~started'
      => /\ tickTimer' = NoTimer /\ tickTimer \notin timers'
         /\ listeners' = {}
         /\ \A k \in Kinds : boundListeners'[k] = NoListener
         /\ config.autoConnect => ~wsConnection' /\ wsState' = "none"
         /\ ~config.autoConnect => wsState' = wsState
         /\ ~ctx'.running
         /\ config.onStop => /\ onStopCalls' = onStopCalls + 1
                             /\ inv'[<<"stop", FALSE>>] = inv[<<"stop", FALSE>>] + 1
         /\ ~config.onStop => onStopCalls' = onStopCalls ]_vars

\* C8: a failed connection attempt during start() is non-fatal: the error
\* handler gets it with source 'start', the start() call goes on (it is not
\* rejected), the loop is still running if it was, and the configured
\* listeners are registered.
C8_ConnectFailureNonFatal ==
  [][ \A c \in CallIds :
        /\ pc[c] \in {"connect", "connectOrphan"}
        /\ pc'[c] # pc[c]
        /\ errCount' # errCount
        => /\ errCount' = errCount + 1 /\ lastErr' = "start"
           /\ pc'[c] \in {"onStart", "done"}
           /\ started' = started
           /\ \A k \in config.handlers : <<k, c>> \in listeners' ]_vars

\* C9: with auto-connect, onStart and onTick configured, no tick handler
\* invocation begins while a start() call has not yet got past its connection
\* attempt and its onStart.
C9_StartOrdering ==
  [][ config.autoConnect /\ config.onStart /\ config.onTick /\ TickBegins
      => \A c \in CallIds : pc'[c] \notin Pending ]_vars

\* C10: every tick handler invocation that settles, by returning or by
\* throwing, advances tickCount by one.
C10_ThrowingTickCounts ==
  [][ TickSettles => ctx'.tickCount = ctx.tickCount + 1 ]_vars

\* C11: at most one tick handler invocation is in flight at any time: no tick
\* handler invocation begins while another has not yet settled.
C11_OneTickInFlight == TicksInFlight(inv) <= 1

Settled == \A c \in CallIds : pc[c] \in {"new", "done"}

\* C12: with a tick handler configured, a start() call that completes on a
\* running loop begins exactly one tick handler invocation if
\* immediateFirstTick is set and none if it is not, and while the loop is
\* running with every accepted start() call completed exactly one interval is
\* armed (the one in tickTimer), so that exactly one invocation begins per
\* elapsed interval.
C12_TickSchedule ==
  /\ [][ \A c \in CallIds :
           config.onTick /\ started /\ pc[c] \in Pending /\ pc'[c] = "done"
           => TicksInFlight(inv') - TicksInFlight(inv)
                = IF config.immediateFirstTick THEN 1 ELSE 0 ]_vars
  /\ [](config.onTick /\ started /\ Settled
          => tickTimer # NoTimer /\ timers = {tickTimer})

\* C13: listeners are registered only for the kinds with a configured handler,
\* and while the loop is running one inbound frame begins at most one
\* invocation of each kind's handler.
C13_EventRouting ==
  /\ [](\A l \in listeners : l[1] \in config.handlers)
  /\ [][ started => \A k \in Kinds :
                      EventsInFlight(inv', k) <= EventsInFlight(inv, k) + 1 ]_vars

C15_DisconnectSuppressesReconnect ==
  /\ [](obs.suppressed => timeouts = {})
  /\ [][ obs.suppressed /\ obs'.suppressed
         => \A i \in ConnectIds :
              calls'[i].origin = "timer" /\ calls'[i].sock # NoSocket
              => /\ calls[i].sock = calls'[i].sock
                 /\ sockets'[calls'[i].sock].state = "open"
                      => sockets[calls'[i].sock].state = "open" ]_vars

\* C16: the reconnect attempt scheduled at the k-th consecutive unexpected
\* closure since the last successful open (k = 0, 1, ...) has the delay
\* min(1000 * 2^k, maxReconnectDelay), and the attempt counter goes down only
\* to zero and only when a socket opens.
C16_ReconnectBackoff ==
  [][ /\ \A t \in timeouts' \ timeouts :
           obs'.closures = obs.closures + 1
           => t.delay = Min(BaseDelay * 2 ^ obs.closures, wsConfig.maxReconnectDelay)
      /\ conn'.reconnectAttempt < conn.reconnectAttempt
           => /\ conn'.reconnectAttempt = 0
              /\ \E s \in DOMAIN sockets :
                   sockets[s].state = "connecting" /\ sockets'[s].state = "open"
    ]_vars

\* C17: with auto-reconnect on and no disconnect() by the caller, after an
\* unexpected closure the instance never comes to rest without a channel: when
\* no socket is live and no connect() call is in progress a reconnect timer is
\* pending; and no connect() call made by the reconnect timer ends in a
\* rejection that is thrown.
C17_ReconnectNeverGivesUp ==
  /\ wsConfig.autoReconnect /\ ~obs.callerClosed /\ obs.closures > 0
       /\ Live(sockets) = {} /\ InProgress(calls) = {}
     => timeouts # {}
  /\ \A i \in ConnectIds : calls[i].origin = "timer" => calls[i].at # "rejected"

\* C18: the instance has at most one live (connecting or open) socket.
C18_SingleChannel == Cardinality(Live(sockets)) <= 1

\* C19: an emission calls exactly the listeners that were registered for the
\* event when it began, each once, whatever the listeners add or remove
\* meanwhile.
C19_StableDispatch ==
  \A i \in DOMAIN trace : trace[i].called = trace[i].before

EmissionsOf(n) ==
  LET sel == SelectSeq(trace, LAMBDA r : r.frame = n)
  IN [i \in DOMAIN sel |-> sel[i].event]

\* C20: a 'notification:new' frame whose notification.type is 'watch_update'
\* is emitted exactly once on 'notification' and exactly once on
\* 'watch_update'; with any other inner type it is emitted once on
\* 'notification' only; no listener is called twice in an emission.
C20_DerivedWatchEmission ==
  /\ \A n \in DOMAIN received :
       /\ received[n] = "notification:new/watch_update"
            => EmissionsOf(n) = <<"notification", "watch_update">>
       /\ received[n] = "notification:new/claw"
            => EmissionsOf(n) = <<"notification">>
  /\ \A i \in DOMAIN trace :
       \A a, b \in DOMAIN trace[i].called :
         trace[i].called[a] = trace[i].called[b] => a = b

C20_Witness ==
  \E i, j \in DOMAIN trace :
    /\ trace[i].frame = trace[j].frame
    /\ received[trace[i].frame] = "notification:new/watch_update"
    /\ trace[i].event = "notification" /\ trace[i].called # <<>>
    /\ trace[j].event = "watch_update" /\ trace[j].called # <<>>

\* C25: the stopRequested flag rises only in a step that does nothing else
\* to the loop (requestStop() called by a handler in flight), falls only in a
\* step in which a start() call is accepted, and every accepted start() call
\* leaves it clear; a run ends at the settling of a handler only with the flag
\* set.
C25_StopFlagFrame ==
  [][ /\ ~ctx.stopRequested /\ ctx'.stopRequested
        => /\ ctx' = [ctx EXCEPT !.stopRequested = TRUE]
           /\ UNCHANGED <<started, tickTimer, boundListeners, timers, pc,
                          listeners, onStartCalls, onStopCalls, errCount>>
           /\ InFlight(inv') = InFlight(inv)
      /\ ctx.stopRequested /\ ~ctx'.stopRequested
        => \E c \in CallIds : pc[c] = "new" /\ pc'[c] = "agentId"
      /\ (\E c \in CallIds : pc[c] = "new" /\ pc'[c] = "agentId")
        => ~ctx'.stopRequested /\ started'
      /\ started /\ ~started' /\ InFlight(inv') < InFlight(inv)
        => ctx.stopRequested ]_vars

C25_Witness ==
  /\ started /\ ~ctx.stopRequested
  /\ Accepted = 2
  /\ \E s \in Kinds \cup {"tick"} : inv[<<s, TRUE>>] > 0

\* C26: tickCount changes only by +1 and only in a step in which a tick
\* handler invocation settles, and lastTickAt is unset exactly when tickCount
\* is 0.
C26_TickCountMonotone ==
  /\ [][ ctx'.tickCount # ctx.tickCount
         => ctx'.tickCount = ctx.tickCount + 1 /\ TickSettles ]_vars
  /\ [](ctx.lastTickAt = 0 <=> ctx.tickCount = 0)

C26_Witness ==
  /\ ctx.tickCount = MaxTicks /\ ctx.lastTickAt # 0
  /\ Accepted = 2 /\ ~started /\ onStopCalls > 0

\* C27: whenever running is false and no start() call is pending, no interval
\* is armed and none of the loop's listeners is registered on the client.
C27_NoLeak ==
  ~ctx.running /\ (\A c \in CallIds : pc[c] \notin Pending)
  => tickTimer = NoTimer /\ timers = {} /\ listeners = {}

\* C28: at most one reconnect timer is pending, and the reconnectTimer field
\* refers to it.
C28_OneReconnectTimer ==
  /\ Cardinality(timeouts) <= 1
  /\ \A t \in timeouts : t.id = conn.reconnectTimer

Count(seq, x) == Cardinality({i \in DOMAIN seq : seq[i] = x})

FrameArrives(frame) ==
  Len(received') = Len(received) + 1 /\ received'[Len(received')] = frame

C29_HandleMessageNeverThrows ==
  /\ [](~obs.uncaught)
  /\ [][ FrameArrives("not json") \/ FrameArrives("null")
         => UNCHANGED <<conn, sockets, timeouts, calls, trace>> ]_vars

\* C30: an event arriving on the open channel is delivered to every listener
\* the application registered with client.on() and did not remove with
\* client.off(), also after client.disconnect() followed by client.connect().
C30_ListenersSurviveReconnect == app.expected \subseteq app.delivered

Authenticated(init) == "X-Claw-Nonce" \in DOMAIN init.headers

\* C22: no nonce and no signature is presented to the server in two attempts
\* of an authenticated request: a retry after 429 carries a fresh envelope.
C22_FreshNonceOnRetry ==
  \A i, j \in DOMAIN http.fetched :
     i < j /\ Authenticated(http.fetched[i]) /\ Authenticated(http.fetched[j])
       => /\ http.fetched[i].headers["X-Claw-Nonce"]
               # http.fetched[j].headers["X-Claw-Nonce"]
          /\ http.fetched[i].headers["X-Claw-Signature"]
               # http.fetched[j].headers["X-Claw-Signature"]

\* The retry policy alone: a further fetch is made only after a 429, with
\* retryOnRateLimit set and the attempt count below maxRetries, and a
\* request() makes at most maxRetries + 1 fetch calls.
RetryBound ==
  /\ [](/\ http.attempt <= http.maxRetries
        /\ Len(http.fetched) <= http.attempt + 1)
  /\ [][ http'.attempt # http.attempt
         => /\ http'.attempt = http.attempt + 1
            /\ http.status = 429 /\ http.retryOnRateLimit
            /\ http.attempt < http.maxRetries ]_vars

\* With the version of part_017 the envelope of a retry is fresh.
FreshNonceInPart017 == http.impl = "part_017" => C22_FreshNonceOnRetry

\* C23: the retry policy, and: with retryOnRateLimit = FALSE a 429 fails with
\* the typed API error after exactly one call; any other non-2xx status is
\* never retried.
C23_RetryBound ==
  /\ RetryBound
  /\ [](http.at = "done" /\ http.status = 429 /\ ~http.retryOnRateLimit
          => Len(http.fetched) = 1 /\ http.outcome = "ClawApiError")
  /\ [][ http.at = "fetch" /\ http'.status = 500 => http'.at = "done" ]_vars

WireBody(init) == IF init.body = Undefined THEN "{}" ELSE init.body.text

\* C24: the signature of every authenticated request covers exactly
\* wireBody + nonce + timestamp, with the nonce and timestamp of the headers
\* and wireBody the string sent as the body, or "{}" when no body is sent; the
\* body sent is the one serialization made in request().
C24_SignedEnvelope ==
  \A i \in DOMAIN http.fetched :
     LET init == http.fetched[i]
     IN /\ init.body = (IF http.opts.method # "GET"
                        THEN JSON_stringify(http.opts.body) ELSE Undefined)
        /\ Authenticated(init)
             => init.headers["X-Claw-Signature"]
                  = signMessage(WireBody(init) \o init.headers["X-Claw-Nonce"]
                                  \o init.headers["X-Claw-Timestamp"], PrivateKey)

C24_Witness ==
  /\ Len(http.fetched) = 2
  /\ Authenticated(http.fetched[2])
  /\ http.opts.body = Str("hi") /\ http.opts.method = "POST"
  /\ http.fetched[2].body = Str("\"hi\"")
====
